---------------------------- MODULE Spec2Model ----------------------------
(***************************************************************************)
(* Model of ai2thor/interact.py: the terminal-driven manual control loop   *)
(* InteractiveControllerPrompt (key interpreter next_interact_command,     *)
(* the per-step body of interact() with its affordance enumeration, and    *)
(* the frame writer write_image).                                          *)
(*                                                                         *)
(* Strings that the code inspects character by character (key sequences,   *)
(* file names) are sequences of one-character strings.  "ESC" stands for   *)
(* the byte \x1b and "ETX" for the interrupt byte \x03.                    *)
(***************************************************************************)
EXTENDS Integers, Sequences, FiniteSets, TLC

(***************************************************************************)
(* Bounds of the model.                                                    *)
(***************************************************************************)
\* objects in event.metadata['objects'] of one event
MaxObjects == 2
\* commands dispatched in one explored run (caps self.counter)
MaxSteps == 2

(***************************************************************************)
(* Characters and small string helpers.                                    *)
(***************************************************************************)
DigitChars == <<"0", "1", "2", "3", "4", "5", "6", "7", "8", "9">>

\* characters get_term_character can return in the model
Chars ==
  {"ESC", "ETX", "[", ";", "A", "B", "C", "D", "i", "j", "k", "l", "q", "x"}
    \cup {DigitChars[d] : d \in 1..10}

RECURSIVE Decimal(_)
\* str(n) / "{}".format(n) for a non-negative integer
Decimal(n) ==
  IF n < 10 THEN <<DigitChars[n + 1]>>
  ELSE Decimal(n \div 10) \o <<DigitChars[(n % 10) + 1]>>

\* str.startswith: k.startswith(p)
StartsWith(k, p) ==
  /\ Len(p) <= Len(k)
  /\ SubSeq(k, 1, Len(p)) = p

\* code point order of the characters that occur in dynamic keys
DigitValue(c) == CHOOSE d \in 0..9 : DigitChars[d + 1] = c

RECURSIVE StrLess(_, _)
\* Python's < on two strings of digits (lexicographic by code point)
StrLess(s, t) ==
  IF s = <<>> THEN t # <<>>
  ELSE IF t = <<>> THEN FALSE
  ELSE IF Head(s) = Head(t) THEN StrLess(Tail(s), Tail(t))
  ELSE DigitValue(Head(s)) < DigitValue(Head(t))

RECURSIVE SortedStrings(_)
\* sorted(S) for a set S of strings of digits
SortedStrings(S) ==
  IF S = {} THEN <<>>
  ELSE LET m == CHOOSE x \in S : \A y \in S \ {x} : StrLess(x, y)
       IN  <<m>> \o SortedStrings(S \ {m})

\* dict.update: d1 overlaid with d2
DictUpdate(d1, d2) ==
  [k \in (DOMAIN d1) \cup (DOMAIN d2) |-> IF k \in DOMAIN d2 THEN d2[k] ELSE d1[k]]

\* d[k] = v on a dict
DictPut(d, key, v) ==
  [k \in (DOMAIN d) \cup {key} |-> IF k = key THEN v ELSE d[k]]

EmptyDict == [k \in {} |-> <<>>]

(***************************************************************************)
(* The static command table of __init__.                                   *)
(***************************************************************************)
\* names of the members of the enum DefaultActions
DefaultActionNames ==
  {"MoveRight", "MoveLeft", "MoveAhead", "MoveBack",
   "LookUp", "LookDown", "RotateRight", "RotateLeft"}

Csi(c) == <<"ESC", "[", c>>
ShiftCsi(c) == <<"ESC", "[", "1", ";", "2", c>>

Move(action) == [action |-> action, moveMagnitude |-> "0.25"]
Plain(action) == [action |-> action]

\* the literal default_interact_commands of __init__ as (key, command) pairs
DefaultBindings ==
  { <<Csi("C"), Move("MoveRight")>>,
    <<Csi("D"), Move("MoveLeft")>>,
    <<Csi("A"), Move("MoveAhead")>>,
    <<Csi("B"), Move("MoveBack")>>,
    <<ShiftCsi("A"), Plain("LookUp")>>,
    <<ShiftCsi("B"), Plain("LookDown")>>,
    <<<<"i">>, Plain("LookUp")>>,
    <<<<"k">>, Plain("LookDown")>>,
    <<<<"l">>, Plain("RotateRight")>>,
    <<<<"j">>, Plain("RotateLeft")>>,
    <<ShiftCsi("C"), Plain("RotateRight")>>,
    <<ShiftCsi("D"), Plain("RotateLeft")>> }

\* self.default_interact_commands: the bindings whose action is permitted
DefaultInteractCommands(actions) ==
  LET kept == {b \in DefaultBindings : b[2].action \in actions}
  IN  [k \in {b[1] : b \in kept} |-> (CHOOSE b \in kept : b[1] = k)[2]]


(***************************************************************************)
(* Affordance enumeration of interact(): add_command and the loop over     *)
(* event.metadata['objects'].                                              *)
(***************************************************************************)
\* the literal 15 of add_command: slots are granted while counter < 15
SlotLimit == 15

\* the closure state of one step: new_commands, command_counter and
\* visible_objects, as they are at the top of the for-body
NewStep == [new_commands |-> EmptyDict, counter |-> 1, visible_objects |-> <<>>]

\* add_command with the cap off by one (counter <= 15)
add_command_OffByOne(st, com) ==
  IF st.counter <= SlotLimit
  THEN [st EXCEPT !.new_commands = DictPut(@, Decimal(st.counter), com),
                  !.counter = @ + 1]
  ELSE st

\* add_command(cc, action, **args) with com the finished dict
add_command(st, com) ==
  IF st.counter < SlotLimit
  THEN [st EXCEPT !.new_commands = DictPut(@, Decimal(st.counter), com),
                  !.counter = @ + 1]
  ELSE st

RECURSIVE AddCommands(_, _)
\* consecutive add_command calls, in order
AddCommands(st, coms) ==
  IF coms = <<>> THEN st
  ELSE AddCommands(add_command(st, Head(coms)), Tail(coms))

OnObject(action, o) == [action |-> action, objectId |-> o.objectId]
MoveHand(action) == [action |-> action, moveMagnitude |-> "0.1"]

\* the eight add_command calls of the PutObject branch
PutBundle(o, inventoryObjectId) ==
  << [action |-> "PutObject", objectId |-> inventoryObjectId,
      receptacleObjectId |-> o.objectId],
     MoveHand("MoveHandAhead"), MoveHand("MoveHandBack"),
     MoveHand("MoveHandRight"), MoveHand("MoveHandLeft"),
     MoveHand("MoveHandUp"), MoveHand("MoveHandDown"),
     Plain("DropHandObject") >>

\* the openable branch of a visible object
OpenCloseCommands(o) ==
  IF o.openable
  THEN IF o.isopen THEN <<OnObject("CloseObject", o)>>
       ELSE <<OnObject("OpenObject", o)>>
  ELSE <<>>

\* the toggleable branch ('toggleable' in o and o['toggleable']; a FALSE
\* flag stands for both a missing key and a false value)
ToggleCommands(o) ==
  IF o.toggleable THEN <<OnObject("ToggleObjectOff", o)>> ELSE <<>>

\* the inventory branch with PickupObject withheld from a closed object
InventoryCommands_NoPickupWhenClosed(o, inventoryObjects) ==
  IF Len(inventoryObjects) > 0
  THEN LET inventoryObjectId == inventoryObjects[1].objectId
       IN  IF /\ o.receptacle
              /\ (~o.openable \/ o.isopen)
              /\ inventoryObjectId # o.objectId
           THEN PutBundle(o, inventoryObjectId)
           ELSE <<>>
  ELSE IF o.pickupable /\ (~o.openable \/ o.isopen)
       THEN <<OnObject("PickupObject", o)>>
  ELSE <<>>

\* the inventory branch with the elif belonging to the inner test, so
\* that PickupObject is offered whenever the bundle is not
InventoryCommands_PickupWhileHolding(o, inventoryObjects) ==
  IF /\ Len(inventoryObjects) > 0
     /\ o.receptacle
     /\ (~o.openable \/ o.isopen)
     /\ inventoryObjects[1].objectId # o.objectId
  THEN PutBundle(o, inventoryObjects[1].objectId)
  ELSE IF o.pickupable THEN <<OnObject("PickupObject", o)>>
  ELSE <<>>

\* the if/elif on the inventory: the elif belongs to the test of
\* len(inventoryObjects) > 0, so PickupObject is reached with an empty
\* inventory only
InventoryCommands(o, inventoryObjects) ==
  IF Len(inventoryObjects) > 0
  THEN LET inventoryObjectId == inventoryObjects[1].objectId
       IN  IF /\ o.receptacle
              /\ (~o.openable \/ o.isopen)
              /\ inventoryObjectId # o.objectId
           THEN PutBundle(o, inventoryObjectId)
           ELSE <<>>
  ELSE IF o.pickupable THEN <<OnObject("PickupObject", o)>>
  ELSE <<>>

\* the calls for one object with the toggle test ahead of the openable test
ObjectCommands_ToggleFirst(o, inventoryObjects) ==
  ToggleCommands(o) \o OpenCloseCommands(o) \o InventoryCommands(o, inventoryObjects)

\* the add_command calls made for one visible object, in call order
ObjectCommands(o, inventoryObjects) ==
  OpenCloseCommands(o) \o ToggleCommands(o) \o InventoryCommands(o, inventoryObjects)

\* the iteration without the test of o['visible']
VisitObject_IgnoresVisible(st, o, inventoryObjects) ==
  AddCommands([st EXCEPT !.visible_objects = Append(@, o.objectId)],
              ObjectCommands(o, inventoryObjects))

\* the iteration with the slot counter started afresh for every object
VisitObject_ResetCounter(st, o, inventoryObjects) ==
  IF o.visible
  THEN AddCommands([st EXCEPT !.visible_objects = Append(@, o.objectId),
                              !.counter = 1],
                   ObjectCommands(o, inventoryObjects))
  ELSE st

\* one iteration of "for o in event.metadata['objects']"
VisitObject(st, o, inventoryObjects) ==
  IF o.visible
  THEN AddCommands([st EXCEPT !.visible_objects = Append(@, o.objectId)],
                   ObjectCommands(o, inventoryObjects))
  ELSE st

RECURSIVE VisitObjects(_, _, _)
\* the loop over the first Len(objects) objects, starting from st
VisitObjects(st, objects, inventoryObjects) ==
  IF objects = <<>> THEN st
  ELSE VisitObjects(VisitObject(st, Head(objects), inventoryObjects),
                    Tail(objects), inventoryObjects)

\* "if self.has_object_actions: for o in ...": the closure state at the
\* end of the enumeration
Enumerate(has_actions, ev) ==
  IF has_actions
  THEN VisitObjects(NewStep, ev.objects, ev.inventoryObjects)
  ELSE NewStep

\* the listing loop "for k in sorted(new_commands.keys())": one line per
\* key, in the order printed
Listing(commands) ==
  LET ks == SortedStrings(DOMAIN commands)
  IN  [i \in 1..Len(ks) |-> [slot |-> ks[i], command |-> commands[ks[i]]]]

(***************************************************************************)
(* write_image.                                                            *)
(***************************************************************************)
Chr(s) ==
  CASE s = "color" -> <<"c", "o", "l", "o", "r">>
    [] s = "instance_segmentation" ->
         <<"i", "n", "s", "t", "a", "n", "c", "e", "_",
           "s", "e", "g", "m", "e", "n", "t", "a", "t", "i", "o", "n">>
    [] s = "class_segmentation" ->
         <<"c", "l", "a", "s", "s", "_",
           "s", "e", "g", "m", "e", "n", "t", "a", "t", "i", "o", "n">>
    [] s = "depth" -> <<"d", "e", "p", "t", "h">>
    [] s = "depth_raw" -> <<"d", "e", "p", "t", "h", "_", "r", "a", "w">>
    [] s = ".png" -> <<".", "p", "n", "g">>
    [] s = ".npy" -> <<".", "n", "p", "y">>

\* os.path.join(a, b) for a relative b
PathJoin(a, b) ==
  IF a = <<>> \/ a[Len(a)] = "/" THEN a \o b ELSE a \o <<"/">> \o b

RECURSIVE LStrip(_, _)
LStrip(s, cs) ==
  IF s # <<>> /\ Head(s) \in cs THEN LStrip(Tail(s), cs) ELSE s

RECURSIVE RStrip(_, _)
RStrip(s, cs) ==
  IF s # <<>> /\ s[Len(s)] \in cs THEN RStrip(SubSeq(s, 1, Len(s) - 1), cs) ELSE s

\* str.strip(chars): drops every leading and trailing character that
\* occurs in chars
Strip(s, chars) ==
  LET cs == {chars[i] : i \in 1..Len(chars)} IN RStrip(LStrip(s, cs), cs)

\* the file np.save(name, x) creates: ".npy" is appended unless present
NpSaveFile(name) ==
  IF Len(name) >= 4 /\ SubSeq(name, Len(name) - 3, Len(name)) = Chr(".npy")
  THEN name ELSE name \o Chr(".npy")

\* the list frame_writes: channel name, enabling flag, whether frame_func
\* returns a frame, and the kind of save function
FrameWrites(ev, flags) ==
  << [name |-> "color", condition |-> flags.color_frame,
      present |-> ev.frames.frame, save |-> "image"],
     [name |-> "instance_segmentation",
      condition |-> flags.instance_segmentation_frame,
      present |-> ev.frames.instance_segmentation_frame, save |-> "image"],
     [name |-> "class_segmentation",
      condition |-> flags.class_segmentation_frame,
      present |-> ev.frames.class_segmentation_frame, save |-> "image"],
     [name |-> "depth", condition |-> flags.depth_frame,
      present |-> ev.frames.depth_frame, save |-> "image"],
     [name |-> "depth_raw", condition |-> flags.depth_frame,
      present |-> ev.frames.depth_frame, save |-> "array"] >>

\* image_name without the suffix whatever image_per_frame is
ImageName_NoSuffix(dir, name, suffix, per_frame) ==
  PathJoin(dir, Chr(name) \o Chr(".png"))

\* image_name of one channel
ImageName(dir, name, suffix, per_frame) ==
  PathJoin(dir, Chr(name) \o (IF per_frame THEN Decimal(suffix) ELSE <<>>)
                  \o Chr(".png"))

\* the name handed to np.save by the depth_raw save function
ArrayBaseName(image_name) == Strip(image_name, Chr(".png"))

\* the file that save(image_name, frame) writes
SavedFile(w, image_name) ==
  IF w.save = "array" THEN NpSaveFile(ArrayBaseName(image_name))
  ELSE image_name

\* the channels of the entries ws that save_image, and so cv2.imwrite, is
\* called for
ImageSaves(ws) ==
  {ws[i].name : i \in {j \in DOMAIN ws : ws[j].present /\ ws[j].save = "image"}}

\* whether the save call of entry w leaves its file on disk, failed being
\* the channels whose cv2.imwrite returns False (the path cannot be
\* opened for writing): save_image drops the value cv2.imwrite returns,
\* so the call returns normally with no file written
Stored(w, failed) == ~(w.save = "image" /\ w.name \in failed)

\* the body of "for frame_filename, condition, ... in frame_writes" when
\* it raises nothing; the unpacked condition is not consulted.  An entry
\* of written is one call of save(image_name, frame)
WriteFrame(out, w, dir, suffix, per_frame, failed) ==
  IF w.present
  THEN LET image_name == ImageName(dir, w.name, suffix, per_frame)
       IN  [out EXCEPT !.written = Append(@, [channel |-> w.name,
                                              image_name |-> image_name,
                                              file |-> SavedFile(w, image_name),
                                              stored |-> Stored(w, failed)])]
  ELSE [out EXCEPT !.no_frame = Append(@, w.name)]

RECURSIVE WriteFrames_StopAtMissing(_, _, _, _, _, _)
\* the loop left at the first channel without a frame
WriteFrames_StopAtMissing(out, ws, dir, suffix, per_frame, failed) ==
  IF ws = <<>> THEN out
  ELSE IF ~Head(ws).present
       THEN WriteFrame(out, Head(ws), dir, suffix, per_frame, failed)
       ELSE WriteFrames_StopAtMissing(
              WriteFrame(out, Head(ws), dir, suffix, per_frame, failed),
              Tail(ws), dir, suffix, per_frame, failed)

RECURSIVE WriteFrames(_, _, _, _, _, _)
\* the loop over the entries ws, none of which raises
WriteFrames(out, ws, dir, suffix, per_frame, failed) ==
  IF ws = <<>> THEN out
  ELSE WriteFrames(WriteFrame(out, Head(ws), dir, suffix, per_frame, failed),
                   Tail(ws), dir, suffix, per_frame, failed)

\* write_image(event, image_dir, suffix, image_per_frame, flags...) when
\* it returns: the save calls made and the channels reported "No frame
\* present", in order
write_image(ev, dir, suffix, per_frame, flags, failed) ==
  WriteFrames([written |-> <<>>, no_frame |-> <<>>], FrameWrites(ev, flags),
              dir, suffix, per_frame, failed)

(***************************************************************************)
(* Inputs: events returned by controller.step and constructor arguments.   *)
(***************************************************************************)
\* the flags of an object descriptor the code reads; isopen is only read
\* for an openable object
ObjectFlags ==
  {f \in [visible : BOOLEAN, openable : BOOLEAN, isopen : BOOLEAN,
          toggleable : BOOLEAN, receptacle : BOOLEAN, pickupable : BOOLEAN] :
     f.isopen => f.openable}

Flags(v, op, io, t, r, p) ==
  [visible |-> v, openable |-> op, isopen |-> io,
   toggleable |-> t, receptacle |-> r, pickupable |-> p]

\* the object descriptors of the explored sessions: a closed laptop and
\* an open microwave, both in view
SessionFlags ==
  { Flags(TRUE, TRUE, FALSE, FALSE, FALSE, TRUE),
    Flags(TRUE, TRUE, TRUE, TRUE, TRUE, FALSE) }

\* the object descriptors of the explored sessions of a prompt without
\* object actions: the closed laptop
LaptopOnly == { Flags(TRUE, TRUE, FALSE, FALSE, FALSE, TRUE) }

\* the object descriptors of the single explored step: every combination
\* of flags for an object in view, none or all of them for one out of view
StepFlags ==
  {f \in ObjectFlags :
     f.visible \/ f \in {Flags(FALSE, FALSE, FALSE, FALSE, FALSE, FALSE),
                         Flags(FALSE, TRUE, TRUE, TRUE, TRUE, TRUE)}}

Object(f, id) ==
  [objectId |-> id, visible |-> f.visible, openable |-> f.openable,
   isopen |-> f.isopen, toggleable |-> f.toggleable,
   receptacle |-> f.receptacle, pickupable |-> f.pickupable]

\* metadata['objects'] lists of n objects; the i-th has objectId i
ObjectLists(F, n) == {[i \in 1..n |-> Object(g[i], i)] : g \in [1..n -> F]}

\* metadata['inventoryObjects']: empty, or a held item that is one of the
\* n listed objects or an object that is not listed (objectId 0)
Inventories(n) == {<<>>} \cup {<<[objectId |-> i]>> : i \in 0..n}

FrameSets ==
  [frame : BOOLEAN, instance_segmentation_frame : BOOLEAN,
   class_segmentation_frame : BOOLEAN, depth_frame : BOOLEAN]

ColorOnly ==
  [frame |-> TRUE, instance_segmentation_frame |-> FALSE,
   class_segmentation_frame |-> FALSE, depth_frame |-> FALSE]

\* a controller initialized to render the depth channel as well
ColorAndDepth ==
  [frame |-> TRUE, instance_segmentation_frame |-> FALSE,
   class_segmentation_frame |-> FALSE, depth_frame |-> TRUE]

\* a controller event: the metadata and frames the code reads
Event(os, inv, fr) == [objects |-> os, inventoryObjects |-> inv, frames |-> fr]

NoEvent == Event(<<>>, <<>>, ColorOnly)

ChannelFlags ==
  [color_frame : BOOLEAN, instance_segmentation_frame : BOOLEAN,
   class_segmentation_frame : BOOLEAN, depth_frame : BOOLEAN]

\* the defaults of interact(): every channel flag False
NoFlags ==
  [color_frame |-> FALSE, instance_segmentation_frame |-> FALSE,
   class_segmentation_frame |-> FALSE, depth_frame |-> FALSE]

EveryFlag ==
  [color_frame |-> TRUE, instance_segmentation_frame |-> TRUE,
   class_segmentation_frame |-> TRUE, depth_frame |-> TRUE]

\* the defaults of __init__ and interact(), with all of DefaultActions
DefaultConfig ==
  [default_actions |-> DefaultActionNames, has_object_actions |-> TRUE,
   image_dir |-> <<".">>, image_per_frame |-> FALSE, flags |-> NoFlags,
   rendered |-> ColorOnly]

\* the configurations of the explored sessions
\* a prompt restricted to four default actions, without object actions,
\* that saves every channel to one file per step under "out", driving a
\* controller that renders color and depth
CustomConfig ==
  [default_actions |-> {"MoveAhead", "MoveBack", "RotateRight", "RotateLeft"},
   has_object_actions |-> FALSE, image_dir |-> <<"o", "u", "t">>,
   image_per_frame |-> TRUE, flags |-> EveryFlag, rendered |-> ColorAndDepth]

SessionConfigs == {DefaultConfig, CustomConfig}

\* image_dir arguments of the explored write_image calls
ImageDirs ==
  { <<".">>, <<>>, <<"o", "u", "t">>, <<"/", "t", "m", "p">>,
    <<"p", "n", "g">>, <<"i", "m", "g">>, <<".", "/", "o", "u", "t">> }

NoCommand == [action |-> "<none>"]

\* terminal settings a session can be started under
TerminalModes == {"cooked", "cbreak"}

\* the explored sessions: a configuration and the settings of the
\* terminal at construction (both settings for the custom prompt)
SessionStarts ==
  {s \in [cfg : SessionConfigs, term_mode : TerminalModes] :
     s.cfg = DefaultConfig => s.term_mode = "cooked"}

(***************************************************************************)
(* State.                                                                  *)
(***************************************************************************)
VARIABLES
  pc,                        \* where the program is
  stdin_tty, stdout_tty,     \* whether sys.stdin / sys.stdout is a terminal
  default_actions,           \* names of the default_actions passed to __init__
  has_object_actions, image_per_frame, image_dir,   \* self.*
  flags,                     \* the channel flags passed to interact / write_image
  counter,                   \* self.counter
  default_interact_commands, \* self.default_interact_commands
  interact_commands,         \* self._interact_commands
  current_buffer,            \* current_buffer of next_interact_command
  a,                         \* the command yielded to the for-loop and in process
  branch,                    \* branch taken by the last pass of the while loop
  event,                     \* the event of the last controller.step
  new_commands,              \* new_commands of the last step
  visible_objects,           \* visible_objects of the last step
  listing,                   \* the lines of the last printed command listing
  written,                   \* the save calls of the last write_image call of the session
  no_frame,                  \* channels it reported "No frame present" for
  saved,                     \* files named so far in the save calls of steps that reached "self.counter += 1"
  partial,                   \* files left on disk by the write_image calls that raised since the counter last changed
  rendered,                  \* the frames the controller's events carry
  term_mode,                 \* the settings of the terminal on standard input
  old_settings               \* old_settings of the last get_term_character call

vars ==
  <<pc, stdin_tty, stdout_tty, default_actions, has_object_actions,
    image_per_frame, image_dir, flags, counter, default_interact_commands,
    interact_commands, current_buffer, a, branch, event, new_commands,
    visible_objects, listing, written, no_frame, saved, partial, rendered,
    term_mode, old_settings>>

config_vars ==
  <<stdin_tty, stdout_tty, default_actions, has_object_actions,
    image_per_frame, image_dir, flags, default_interact_commands, rendered>>

step_vars ==
  <<counter, event, new_commands, visible_objects, listing, written, no_frame,
    saved, partial>>

term_vars == <<term_mode, old_settings>>

\* the state __init__ leaves, for constructor arguments cfg
Constructed(cfg) ==
  /\ default_actions = cfg.default_actions
  /\ has_object_actions = cfg.has_object_actions
  /\ image_per_frame = cfg.image_per_frame
  /\ image_dir = cfg.image_dir
  /\ flags = cfg.flags
  /\ counter = 0
  /\ default_interact_commands = DefaultInteractCommands(cfg.default_actions)
  /\ interact_commands = EmptyDict
  /\ current_buffer = <<>>
  /\ a = NoCommand
  /\ branch = "none"
  /\ event = NoEvent
  /\ new_commands = EmptyDict
  /\ visible_objects = <<>>
  /\ listing = <<>>
  /\ written = <<>>
  /\ no_frame = <<>>
  /\ saved = {}
  /\ partial = {}
  /\ rendered = cfg.rendered
  /\ old_settings = "none"

Init ==
  /\ pc = "constructed"
  /\ stdin_tty \in BOOLEAN
  /\ stdout_tty \in BOOLEAN
  /\ \E s \in SessionStarts : Constructed(s.cfg) /\ term_mode = s.term_mode

(***************************************************************************)
(* interact() up to the first read, and next_interact_command.             *)
(***************************************************************************)
\* the positions at which no call of interact() is in progress: after
\* construction, after a return and after an exception has left it
Outside ==
  {"constructed", "done", "usage_error", "termios_error", "setraw_error",
   "read_error",
   "message_error",
   "step_error", "write_error", "enumeration_error", "listing_error"}

\* the locals of a call of interact() and of its generator before the
\* first read: no buffer, no command, no event, no table of the step
FreshLocals ==
  /\ current_buffer' = <<>>
  /\ a' = NoCommand
  /\ branch' = "none"
  /\ event' = NoEvent
  /\ new_commands' = EmptyDict
  /\ visible_objects' = <<>>
  /\ listing' = <<>>

\* a call of interact() on the prompt, the first or a later one: the
\* terminal test, the copy of the default table, the print of the command
\* message and the start of the generator; self.counter is not touched,
\* and the session that starts has called write_image not yet.  When
\* print(command_message) raises (line 92: the encoding of standard output
\* cannot encode the arrows of the message, standard output is closed, an
\* interrupt), interact() is left with the table reset, before the
\* generator is created and so before any read
Interact ==
  /\ pc \in Outside
  /\ IF ~stdout_tty
     THEN /\ pc' = "usage_error"
          /\ UNCHANGED <<interact_commands, current_buffer, a, branch, event,
                         new_commands, visible_objects, listing, written,
                         no_frame>>
     ELSE /\ pc' \in {"read", "message_error"}
          /\ interact_commands' = default_interact_commands
          /\ FreshLocals
          /\ written' = <<>>
          /\ no_frame' = <<>>
  /\ UNCHANGED <<config_vars, term_vars, counter, saved, partial>>

\* the outcomes of the try block and the finally clause of
\* get_term_character: a character is read; tty.setraw raises; the read
\* raises; the read raises because the process has lost the terminal (the
\* job was moved to the background, the line hung up) and the tcsetattr
\* of the finally clause raises for the same reason
TryOutcomes == {"char", "setraw_raises", "read_raises", "terminal_lost"}

\* get_term_character called on a terminal in settings mode: old_settings
\* is what tcgetattr returns on entry, in_try the settings in force inside
\* the try block (raw once tty.setraw has returned, and so all the while
\* sys.stdin.read(1) waits), and term_mode the settings after the
\* tcsetattr(fd, TCSADRAIN, old_settings) of the finally clause: the
\* saved ones, or, when that call raises, those of the try block
get_term_character(mode, outcome) ==
  LET old == mode
      in_try == IF outcome = "setraw_raises" THEN mode ELSE "raw"
      after_finally == IF outcome = "terminal_lost" THEN in_try ELSE old
  IN  [old_settings |-> old, in_try |-> in_try, term_mode |-> after_finally,
       raised |-> outcome # "char"]

\* the entry of get_term_character on a terminal, up to the wait in
\* sys.stdin.read(1): tcgetattr saves the settings and tty.setraw switches
\* the terminal to raw mode, in which it stays while the read is blocked
EnterRaw ==
  /\ pc = "read"
  /\ stdin_tty
  /\ counter < MaxSteps
  /\ LET got == get_term_character(term_mode, "char")
     IN  /\ old_settings' = got.old_settings
         /\ term_mode' = got.in_try
  /\ pc' = "reading"
  /\ UNCHANGED <<config_vars, step_vars, interact_commands, current_buffer,
                 a, branch>>

QuitSequences == {<<"q">>, <<"ETX">>}

\* the prefix test done on the first character of the buffer only
PrefixMatch_FirstChar(commands, buf) ==
  \E k \in DOMAIN commands : buf # <<>> /\ k[1] = buf[1]

\* the prefix test done with == in place of startswith
PrefixMatch_Exact(commands, buf) == \E k \in DOMAIN commands : k = buf

\* "for k, v in commands.items(): if k.startswith(current_buffer)"
PrefixMatch(commands, buf) == \E k \in DOMAIN commands : StartsWith(k, buf)

\* the quit test made on the character just read instead of the buffer
Resolve_QuitOnLastChar(commands, buf) ==
  IF buf # <<>> /\ <<buf[Len(buf)]>> \in QuitSequences THEN "quit"
  ELSE IF buf \in DOMAIN commands THEN "yield"
  ELSE IF PrefixMatch(commands, buf) THEN "keep"
  ELSE "discard"

\* the branch one pass of the while loop takes on buffer buf
Resolve(commands, buf) ==
  IF buf \in QuitSequences THEN "quit"
  ELSE IF buf \in DOMAIN commands THEN "yield"
  ELSE IF PrefixMatch(commands, buf) THEN "keep"
  ELSE "discard"

\* the pass with a discard that keeps the character just read
ReadChar_KeepsLastChar(ch) ==
  /\ pc = "reading"
  /\ stdin_tty
  /\ counter < MaxSteps
  /\ LET buf == current_buffer \o <<ch>>
         r == Resolve(interact_commands, buf)
     IN  /\ branch' = r
         /\ pc' = (CASE r = "quit" -> "done" [] r = "yield" -> "step"
                      [] OTHER -> "read")
         /\ a' = (IF r = "yield" THEN interact_commands[buf] ELSE a)
         /\ current_buffer' = (IF r = "discard" THEN <<ch>> ELSE buf)
  /\ LET got == get_term_character(old_settings, "char")
     IN  /\ term_mode' = got.term_mode
         /\ old_settings' = got.old_settings
  /\ UNCHANGED <<config_vars, step_vars, interact_commands>>

\* the rest of one pass of the while loop of next_interact_command:
\* sys.stdin.read(1) returns ch, the finally clause of get_term_character
\* restores the saved settings, and the buffer is resolved; commands is
\* read from self._interact_commands at the top of the pass.  On a yield
\* the generator is suspended before "current_buffer = ''"
ReadChar(ch) ==
  /\ pc = "reading"
  /\ stdin_tty
  /\ counter < MaxSteps
  /\ LET buf == current_buffer \o <<ch>>
         r == Resolve(interact_commands, buf)
     IN  /\ branch' = r
         /\ CASE r = "quit" ->
                   /\ pc' = "done"
                   /\ current_buffer' = buf
                   /\ UNCHANGED a
              [] r = "yield" ->
                   /\ pc' = "step"
                   /\ a' = interact_commands[buf]
                   /\ current_buffer' = buf
              [] r = "keep" ->
                   /\ pc' = "read"
                   /\ current_buffer' = buf
                   /\ UNCHANGED a
              [] r = "discard" ->
                   /\ pc' = "read"
                   /\ current_buffer' = <<>>
                   /\ UNCHANGED a
  /\ LET got == get_term_character(old_settings, "char")
     IN  /\ term_mode' = got.term_mode
         /\ old_settings' = got.old_settings
  /\ UNCHANGED <<config_vars, step_vars, interact_commands>>

NextInteractCommand == \E ch \in Chars : ReadChar(ch)

\* get_term_character on a terminal when tty.setraw raises (at the entry)
\* or sys.stdin.read raises (while it waits, the terminal raw): the
\* finally clause runs, then an exception, that of the try block or that
\* of the tcsetattr of the finally clause, leaves the generator and
\* interact()
GetCharFails ==
  /\ stdin_tty
  /\ \E outcome \in TryOutcomes \ {"char"} :
       /\ pc = (IF outcome = "setraw_raises" THEN "read" ELSE "reading")
       /\ LET got == get_term_character(
                       IF outcome = "setraw_raises" THEN term_mode
                       ELSE old_settings, outcome)
          IN  /\ got.raised
              /\ term_mode' = got.term_mode
              /\ old_settings' = got.old_settings
       /\ pc' = (IF outcome = "setraw_raises" THEN "setraw_error"
                 ELSE "read_error")
  /\ FreshLocals
  /\ UNCHANGED <<config_vars, counter, written, no_frame, saved, partial,
                 interact_commands>>

\* get_term_character on a standard input that is no terminal:
\* termios.tcgetattr raises termios.error
ReadFails ==
  /\ pc = "read"
  /\ ~stdin_tty
  /\ pc' = "termios_error"
  /\ UNCHANGED <<config_vars, term_vars, step_vars, interact_commands,
                 current_buffer, a, branch>>

(***************************************************************************)
(* The for-body of interact().                                             *)
(***************************************************************************)
\* the files, each with its channel, that the save calls ws name
Names(ws) == {[channel |-> ws[i].channel, file |-> ws[i].file] : i \in DOMAIN ws}

\* the files, each with its channel, that the save calls ws left on disk
Files(ws) ==
  {[channel |-> ws[i].channel, file |-> ws[i].file] :
     i \in {j \in DOMAIN ws : ws[j].stored}}

\* the table assigned to the previous one updated in place
RebuiltCommands_InPlace(defaults, current, new) == DictUpdate(current, new)

\* "self._interact_commands = default_interact_commands.copy()" followed
\* by "self._interact_commands.update(new_commands)"
RebuiltCommands(defaults, current, new) == DictUpdate(defaults, new)

\* how the for-body is left once write_image has returned and
\* "self.counter += 1" has run: at its end, by an exception raised in the
\* enumeration (lines 118-143: a descriptor lacks a key the loop reads,
\* the metadata has no 'objects', an interrupt), ahead of the assignment
\* of the table, or by an exception raised in the prints after it (lines
\* 148-164: the metadata has no agent position, standard output is
\* closed, an interrupt)
BodyExits == {"end", "enumeration", "listing"}

\* the body of "for a in self.next_interact_command()" for the event ev
\* that controller.step(a) returns and a write_image that returns, failed
\* being the channels whose cv2.imwrite returns False.  Left at its end it
\* is followed by the resumption of the generator ("current_buffer = ''")
\* up to its next read; left by an exception, nothing catches it and
\* interact() is left with the counter advanced
StepWith(ev, failed, exit) ==
  /\ pc = "step"
  /\ counter < MaxSteps
  /\ LET out == write_image(ev, image_dir, counter, image_per_frame, flags,
                            failed)
         st == Enumerate(has_object_actions, ev)
     IN  /\ written' = out.written
         /\ no_frame' = out.no_frame
         /\ saved' = saved \cup Names(out.written)
         /\ counter' = counter + 1
         /\ interact_commands' =
              IF exit = "enumeration" THEN interact_commands
              ELSE RebuiltCommands(default_interact_commands,
                                   interact_commands, st.new_commands)
         /\ IF exit = "end"
            THEN /\ event' = ev
                 /\ new_commands' = st.new_commands
                 /\ visible_objects' = st.visible_objects
                 /\ listing' = Listing(st.new_commands)
                 /\ current_buffer' = <<>>
                 /\ a' = NoCommand
                 /\ UNCHANGED branch
            ELSE FreshLocals
  /\ partial' = {}
  /\ pc' = (CASE exit = "end" -> "read"
              [] exit = "enumeration" -> "enumeration_error"
              [] exit = "listing" -> "listing_error")
  /\ UNCHANGED <<config_vars, term_vars>>

\* the number of objects in the events of the explored sessions: one
\* fewer than in the single explored step
MaxSessionObjects == MaxObjects - 1

\* the frame_writes of any event of the controller in use
RenderedWrites == FrameWrites(Event(<<>>, <<>>, rendered), flags)

\* the silent failures of cv2.imwrite of the explored sessions: none, or
\* that of the color image
SessionFailures == {{}, {"color"}}

\* the step on any event with at most m objects of flags F, with the
\* image saves of one of the sets in fs failing silently, left at any of
\* its exits
StepOn(F, m, fs) ==
  /\ pc = "step"
  /\ \E n \in 0..m : \E os \in ObjectLists(F, n) : \E inv \in Inventories(n) :
       \E failed \in fs : \E exit \in BodyExits :
         StepWith(Event(os, inv, rendered), failed, exit)

Step ==
  StepOn(IF has_object_actions THEN SessionFlags ELSE LaptopOnly,
         MaxSessionObjects, SessionFailures)

\* write_image raises when it has processed n - 1 entries of frame_writes:
\* ahead of the loop (n = 1), in the n-th entry (the print of either
\* branch, the transform, or the save: the disk is full, the directory is
\* missing or write-protected), or after the last entry (an interrupt).
\* The saves of the entries before are done, those in failed silently
\* without a file; nothing catches the exception, interact() is left
\* ahead of "self.counter += 1" and of the rebuild of the table
WriteFailsAt(n, failed) ==
  /\ pc = "step"
  /\ counter < MaxSteps
  /\ LET ws == RenderedWrites
     IN  /\ n \in 1..(Len(ws) + 1)
         /\ failed \subseteq ImageSaves(SubSeq(ws, 1, n - 1))
         /\ LET out == WriteFrames([written |-> <<>>, no_frame |-> <<>>],
                                   SubSeq(ws, 1, n - 1), image_dir, counter,
                                   image_per_frame, failed)
            IN  /\ written' = out.written
                /\ no_frame' = out.no_frame
                /\ partial' = partial \cup Files(out.written)
  /\ pc' = "write_error"
  /\ FreshLocals
  /\ UNCHANGED <<config_vars, term_vars, counter, saved, interact_commands>>

WriteFails ==
  \E n \in 1..(Len(RenderedWrites) + 1) :
    \E failed \in SessionFailures : WriteFailsAt(n, failed)

\* controller.step(a) raises: nothing catches it, interact() is left
StepFails ==
  /\ pc = "step"
  /\ pc' = "step_error"
  /\ FreshLocals
  /\ UNCHANGED <<config_vars, term_vars, counter, written, no_frame, saved,
                 partial, interact_commands>>

Next ==
  \/ Interact
  \/ EnterRaw
  \/ NextInteractCommand
  \/ ReadFails
  \/ GetCharFails
  \/ Step
  \/ StepFails
  \/ WriteFails

Spec == Init /\ [][Next]_vars

(***************************************************************************)
(* One step on an arbitrary event: a started session of the default        *)
(* configuration, with or without object actions, that has yielded         *)
(* MoveAhead.                                                              *)
(***************************************************************************)
InitStep ==
  /\ pc = "step"
  /\ stdin_tty = TRUE
  /\ stdout_tty = TRUE
  /\ default_actions = DefaultConfig.default_actions
  /\ has_object_actions \in BOOLEAN
  /\ image_per_frame = DefaultConfig.image_per_frame
  /\ image_dir = DefaultConfig.image_dir
  /\ flags = DefaultConfig.flags
  /\ counter = 0
  /\ default_interact_commands = DefaultInteractCommands(DefaultActionNames)
  /\ interact_commands = DefaultInteractCommands(DefaultActionNames)
  /\ current_buffer = Csi("A")
  /\ a = Move("MoveAhead")
  /\ branch = "yield"
  /\ event = NoEvent
  /\ new_commands = EmptyDict
  /\ visible_objects = <<>>
  /\ listing = <<>>
  /\ written = <<>>
  /\ no_frame = <<>>
  /\ saved = {}
  /\ partial = {}
  /\ rendered = ColorOnly
  /\ term_mode = "cooked"
  /\ old_settings = "cooked"

\* the object descriptors of the single explored step of a prompt
\* without object actions: the closed laptop in view, and an object out
\* of view with every flag set
NoActionStepFlags == LaptopOnly \cup {Flags(FALSE, TRUE, TRUE, TRUE, TRUE, TRUE)}

\* the single explored step: every event, every exit, every save storing
\* its file
StepAny ==
  StepOn(IF has_object_actions THEN StepFlags ELSE NoActionStepFlags,
         MaxObjects, {{}})

NextStep == StepAny

SpecStep == InitStep /\ [][NextStep]_vars

(***************************************************************************)
(* write_image called on its own (it is a classmethod).                    *)
(***************************************************************************)
InitWrite ==
  /\ pc = "write_image"
  /\ stdin_tty = TRUE
  /\ stdout_tty = TRUE
  /\ default_actions = DefaultActionNames
  /\ has_object_actions = TRUE
  /\ image_per_frame \in BOOLEAN
  /\ image_dir \in ImageDirs
  /\ flags \in ChannelFlags
  /\ counter \in 0..MaxSteps
  /\ default_interact_commands = DefaultInteractCommands(DefaultActionNames)
  /\ interact_commands = EmptyDict
  /\ current_buffer = <<>>
  /\ a = NoCommand
  /\ branch = "none"
  /\ \E fr \in FrameSets : event = Event(<<>>, <<>>, fr)
  /\ new_commands = EmptyDict
  /\ visible_objects = <<>>
  /\ listing = <<>>
  /\ written = <<>>
  /\ no_frame = <<>>
  /\ saved = {}
  /\ partial = {}
  /\ rendered = event.frames
  /\ term_mode = "cooked"
  /\ old_settings = "none"

\* write_image(event, image_dir, suffix = counter, image_per_frame, flags)
\* returns, with any of its image saves failing silently
WriteImage ==
  /\ pc = "write_image"
  /\ \E failed \in SUBSET ImageSaves(FrameWrites(event, flags)) :
       LET out == write_image(event, image_dir, counter, image_per_frame,
                              flags, failed)
       IN  /\ written' = out.written
           /\ no_frame' = out.no_frame
  /\ pc' = "written"
  /\ UNCHANGED <<config_vars, term_vars, counter, event, new_commands,
                 visible_objects, listing, saved, partial, interact_commands,
                 current_buffer, a, branch>>

\* the same call raises when it has processed n - 1 entries
WriteImageFails ==
  /\ pc = "write_image"
  /\ LET ws == FrameWrites(event, flags)
     IN  \E n \in 1..(Len(ws) + 1) :
           \E failed \in SUBSET ImageSaves(SubSeq(ws, 1, n - 1)) :
             LET out == WriteFrames([written |-> <<>>, no_frame |-> <<>>],
                                    SubSeq(ws, 1, n - 1), image_dir, counter,
                                    image_per_frame, failed)
             IN  /\ written' = out.written
                 /\ no_frame' = out.no_frame
  /\ pc' = "write_error"
  /\ UNCHANGED <<config_vars, term_vars, counter, event, new_commands,
                 visible_objects, listing, saved, partial, interact_commands,
                 current_buffer, a, branch>>

NextWrite == WriteImage \/ WriteImageFails

SpecWrite == InitWrite /\ [][NextWrite]_vars

(***************************************************************************)
(* Properties.                                                             *)
(***************************************************************************)
\* the keys "1".."14" written out, by slot number
SlotKey ==
  << <<"1">>, <<"2">>, <<"3">>, <<"4">>, <<"5">>, <<"6">>, <<"7">>, <<"8">>,
     <<"9">>, <<"1", "0">>, <<"1", "1">>, <<"1", "2">>, <<"1", "3">>,
     <<"1", "4">> >>

\* buf is a strict prefix of the key k
StrictPrefix(buf, k) ==
  /\ Len(buf) < Len(k)
  /\ \A i \in 1..Len(buf) : k[i] = buf[i]

\* the step of the session or of the single-step specification has run
Stepped == pc = "read" /\ counter > 0

\* C1 (as claimed): for every key k of the active table, feeding the
\* characters of k one at a time from an empty buffer yields nothing before
\* the last character and table[k] at the last one, and the buffer is empty
\* once the command has been processed.
C1_EveryKeyYieldsItsCommand ==
  [][ /\ \A k \in DOMAIN interact_commands : \A n \in 1..Len(k) :
           (current_buffer = SubSeq(k, 1, n - 1) /\ ReadChar(k[n])) =>
              IF n = Len(k)
              THEN pc' = "step" /\ a' = interact_commands[k]
              ELSE pc' = "read" /\ current_buffer' = SubSeq(k, 1, n) /\ a' = a
      /\ (pc = "step" /\ pc' = "read") => current_buffer' = <<>> ]_vars

\* C2 (as claimed): reading 'q' or the interrupt byte ends
\* next_interact_command without a yield, whatever the buffer holds.
C2_QuitAtAnyBuffer ==
  [][ \A ch \in {"q", "ETX"} : ReadChar(ch) => (pc' = "done" /\ a' = a) ]_vars

\* C2 (amended): a quit character read on an empty buffer ends
\* next_interact_command without a yield; read on a non-empty partial
\* buffer it is discarded together with the buffer, nothing is yielded and
\* reading goes on.
C2_QuitOnEmptyBufferOnly ==
  [][ \A ch \in {"q", "ETX"} : ReadChar(ch) =>
        /\ a' = a
        /\ IF current_buffer = <<>>
           THEN pc' = "done"
           ELSE pc' = "read" /\ current_buffer' = <<>> ]_vars

\* C2 witness: the generator has ended on a quit sequence.
C2_Witness == pc = "done" /\ current_buffer \in {<<"q">>, <<"ETX">>}

\* the case of C3: empty inventory, and the single visible object is
\* openable, closed, not toggleable, no receptacle, and pickupable
C3_Case(i) ==
  /\ has_object_actions
  /\ event.inventoryObjects = <<>>
  /\ i \in DOMAIN event.objects
  /\ \A j \in DOMAIN event.objects : event.objects[j].visible <=> j = i
  /\ event.objects[i].openable /\ ~event.objects[i].isopen
  /\ ~event.objects[i].toggleable /\ ~event.objects[i].receptacle
  /\ event.objects[i].pickupable

\* C3 (as claimed): in that case the dynamic table is exactly
\* OpenObject on the object.
C3_OnlyOpenObject ==
  \A i \in DOMAIN event.objects : (Stepped /\ C3_Case(i)) =>
    new_commands = [k \in {<<"1">>} |->
                      [action |-> "OpenObject", objectId |-> event.objects[i].objectId]]

\* C3 (amended): in that case the dynamic table has exactly two entries,
\* "1" OpenObject and "2" PickupObject, both on the object.
C3_OpenThenPickup ==
  \A i \in DOMAIN event.objects : (Stepped /\ C3_Case(i)) =>
    /\ DOMAIN new_commands = {<<"1">>, <<"2">>}
    /\ new_commands[<<"1">>] =
         [action |-> "OpenObject", objectId |-> event.objects[i].objectId]
    /\ new_commands[<<"2">>] =
         [action |-> "PickupObject", objectId |-> event.objects[i].objectId]

\* C3 witness: a step on such an event, the object behind one out of view.
C3_Witness == Stepped /\ C3_Case(2)

\* C4 (as claimed): a channel whose enabling flag is false is skipped, so
\* write_image with every flag false writes no file and reports no
\* missing frame.
C4_DisabledChannelSkipped ==
  pc = "written" =>
    /\ \A i \in DOMAIN written :
         \E j \in DOMAIN FrameWrites(event, flags) :
           /\ FrameWrites(event, flags)[j].name = written[i].channel
           /\ FrameWrites(event, flags)[j].condition
    /\ \A i \in DOMAIN no_frame :
         \E j \in DOMAIN FrameWrites(event, flags) :
           /\ FrameWrites(event, flags)[j].name = no_frame[i]
           /\ FrameWrites(event, flags)[j].condition
    /\ flags = NoFlags => (written = <<>> /\ no_frame = <<>>)

\* C5: after a step the dynamic table has at most 14 entries and each of
\* its keys is one of "1".."14", in the step's table and in the active one.
C5_AtMostFourteenSlots ==
  Stepped =>
    /\ Cardinality(DOMAIN new_commands) <= 14
    /\ DOMAIN new_commands \subseteq {SlotKey[n] : n \in 1..14}
    /\ (DOMAIN interact_commands) \ (DOMAIN default_interact_commands)
         \subseteq {SlotKey[n] : n \in 1..14}

\* C5 witness: the table is full and a PutObject bundle straddles the cap,
\* its tail after MoveHandAhead dropped.
C5_Witness ==
  /\ Stepped
  /\ Cardinality(DOMAIN new_commands) = 14
  /\ new_commands[SlotKey[14]].action = "MoveHandAhead"

\* the case of C6: a visible object that is open, toggleable, a receptacle,
\* not pickupable, while an item that is another object is held
C6_Case(o) ==
  /\ has_object_actions
  /\ o.visible /\ o.openable /\ o.isopen /\ o.toggleable
  /\ o.receptacle /\ ~o.pickupable
  /\ event.inventoryObjects # <<>>
  /\ event.inventoryObjects[1].objectId # o.objectId

\* the ten commands C6 names, for object o
C6_Expected(o) ==
  << [action |-> "CloseObject", objectId |-> o.objectId],
     [action |-> "ToggleObjectOff", objectId |-> o.objectId],
     [action |-> "PutObject", objectId |-> event.inventoryObjects[1].objectId,
      receptacleObjectId |-> o.objectId],
     [action |-> "MoveHandAhead", moveMagnitude |-> "0.1"],
     [action |-> "MoveHandBack", moveMagnitude |-> "0.1"],
     [action |-> "MoveHandRight", moveMagnitude |-> "0.1"],
     [action |-> "MoveHandLeft", moveMagnitude |-> "0.1"],
     [action |-> "MoveHandUp", moveMagnitude |-> "0.1"],
     [action |-> "MoveHandDown", moveMagnitude |-> "0.1"],
     [action |-> "DropHandObject"] >>

\* the command in slot n names object o as its target or receptacle
C6_Targets(n, o) ==
  /\ SlotKey[n] \in DOMAIN new_commands
  /\ LET c == new_commands[SlotKey[n]]
     IN  \/ "objectId" \in DOMAIN c /\ "receptacleObjectId" \notin DOMAIN c
            /\ c.objectId = o.objectId
         \/ "receptacleObjectId" \in DOMAIN c /\ c.receptacleObjectId = o.objectId

\* C6: the commands of such an object fill consecutive slots s, s+1, ...
\* with CloseObject, ToggleObjectOff, PutObject, the six MoveHand commands
\* and DropHandObject, cut at slot 14, and no other slot targets the
\* object; if the table was full before the object, none does.
C6_BundleOrder ==
  Stepped =>
    \A i \in DOMAIN event.objects :
      LET o == event.objects[i]
      IN  C6_Case(o) =>
            \/ /\ Cardinality(DOMAIN new_commands) = 14
               /\ \A n \in 1..14 : ~C6_Targets(n, o)
            \/ \E s \in 1..14 :
                 /\ \A j \in 1..10 :
                      (s + j - 1 <= 14) =>
                        /\ SlotKey[s + j - 1] \in DOMAIN new_commands
                        /\ new_commands[SlotKey[s + j - 1]] = C6_Expected(o)[j]
                 /\ \A n \in 1..14 :
                      C6_Targets(n, o) => n \in {s, s + 1, s + 2}

\* C6 witness: such an object comes second, after a closed laptop, and its
\* whole bundle fits: DropHandObject sits in slot 11.
C6_Witness ==
  /\ Stepped
  /\ Len(event.objects) >= 2
  /\ C6_Case(event.objects[2])
  /\ SlotKey[11] \in DOMAIN new_commands
  /\ new_commands[SlotKey[11]].action = "DropHandObject"

\* C7 (as claimed): interact() raises the usage error, before any read,
\* exactly when standard input is no terminal.
C7_RefusesWithoutInputTerminal ==
  /\ ~stdin_tty => pc \in {"constructed", "usage_error"}
  /\ stdin_tty => pc # "usage_error"

\* C8 (as claimed): with the depth flag set and a depth frame present, the
\* array file of the depth_raw channel is named after the image path
\* <image_dir>/depth_raw<suffix>.png with its last four characters ".png"
\* removed and nothing else changed.
C8_ArrayNameIsImageNameWithoutPng ==
  (pc = "written" /\ flags.depth_frame /\ event.frames.depth_frame) =>
    \E i \in DOMAIN written :
      /\ written[i].channel = "depth_raw"
      /\ LET name == written[i].image_name
         IN  /\ SubSeq(name, Len(name) - 3, Len(name)) = <<".", "p", "n", "g">>
             /\ written[i].file =
                  SubSeq(name, 1, Len(name) - 4) \o <<".", "n", "p", "y">>

\* C9: a character that makes the buffer a strict prefix of some key, and
\* neither a key nor a quit sequence, yields nothing and is kept: the
\* buffer is what has been read since it was last empty.
C9_PartialInputIsKept ==
  [][ \A ch \in Chars :
        LET buf == current_buffer \o <<ch>>
        IN  ( /\ ReadChar(ch)
              /\ buf \notin DOMAIN interact_commands
              /\ buf \notin {<<"q">>, <<"ETX">>}
              /\ \E k \in DOMAIN interact_commands : StrictPrefix(buf, k) )
            => /\ pc' = "read"
               /\ current_buffer' = buf
               /\ a' = a
               /\ UNCHANGED <<interact_commands, counter>> ]_vars

\* C9 witness: the interpreter waits with five characters of a
\* shift-arrow sequence buffered, after a step.
C9_Witness ==
  /\ Stepped
  /\ branch = "keep"
  /\ current_buffer = <<"ESC", "[", "1", ";", "2">>

\* C10: a character that makes the buffer no key, no prefix of a key and no
\* quit sequence yields nothing and leaves the interpreter with an empty
\* buffer and the same table and step counter: the state in which a first
\* character is read.
C10_UnmatchedInputIsDiscarded ==
  [][ \A ch \in Chars :
        LET buf == current_buffer \o <<ch>>
        IN  ( /\ ReadChar(ch)
              /\ buf \notin DOMAIN interact_commands
              /\ buf \notin {<<"q">>, <<"ETX">>}
              /\ ~\E k \in DOMAIN interact_commands : StrictPrefix(buf, k) )
            => /\ pc' = "read"
               /\ current_buffer' = <<>>
               /\ a' = a
               /\ UNCHANGED <<config_vars, step_vars, interact_commands>> ]_vars

\* C10 witness: after a step, a pass of the loop has discarded its input
\* and the interpreter waits with an empty buffer.
C10_Witness ==
  /\ Stepped
  /\ branch = "discard"
  /\ current_buffer = <<>>

\* C11 as stated: the terminal is in raw mode only while
\* get_term_character waits in its read; the call saves the settings the
\* terminal has on entry, and whenever control leaves it, with a character
\* or with an exception of tty.setraw or of the read, the terminal is back
\* in the saved settings; outside the wait nothing changes the settings,
\* so between two reads and after a quit or a failure the terminal is as
\* it was before the session.
C11_TerminalRestored ==
  [][ /\ (pc # "reading" /\ pc' = "reading") =>
           (old_settings' = term_mode /\ term_mode' = "raw")
      /\ (pc = "reading" /\ pc' # "reading") =>
           (term_mode = "raw" /\ term_mode' = old_settings)
      /\ (pc # "reading" /\ pc' # "reading") => term_mode' = term_mode
      /\ pc # "reading" => term_mode # "raw"
      /\ pc' # "reading" => term_mode' # "raw" ]_vars

\* the for-body of interact() has run to its end
StepDone == pc = "step" /\ pc' = "read"

\* C12: the static default table is never modified, and after every step
\* the active table is the static table overlaid with the dynamic entries
\* generated from the event of that step and nothing else: every static
\* key maps to its static command, every dynamic key to the command of
\* this step, and a slot of the previous table that this step does not
\* generate is gone.
C12_TableRebuiltFromStatic ==
  [][ /\ default_interact_commands' = default_interact_commands
      /\ StepDone =>
           /\ new_commands' = Enumerate(has_object_actions, event').new_commands
           /\ DOMAIN interact_commands' =
                DOMAIN default_interact_commands \cup DOMAIN new_commands'
           /\ \A k \in DOMAIN default_interact_commands :
                interact_commands'[k] = default_interact_commands[k]
           /\ \A k \in DOMAIN new_commands' :
                interact_commands'[k] = new_commands'[k]
           /\ \A k \in DOMAIN interact_commands \ DOMAIN default_interact_commands :
                k \notin DOMAIN new_commands' => k \notin DOMAIN interact_commands' ]_vars

\* C12 witness: the second step of a session saw a closed laptop while an
\* item was held, and the active table is the static table and slot 1.
C12_Witness ==
  /\ pc = "read"
  /\ counter = 2
  /\ event.objects # <<>>
  /\ DOMAIN new_commands = {<<"1">>}
  /\ DOMAIN interact_commands = DOMAIN default_interact_commands \cup {<<"1">>}

\* the step has reached "self.counter += 1": controller.step and
\* write_image have returned
Counted == pc = "step" /\ pc' \in {"read", "enumeration_error", "listing_error"}

\* write_image has been called: it returned or it raised
Wrote == Counted \/ (pc = "step" /\ pc' = "write_error")

\* C13 as stated: with image_per_frame set no step, in this or an earlier
\* interact() session of the prompt, has written a file that a later step
\* writes again; with image_per_frame unset a step writes, for each
\* channel, the file the steps before it wrote for that channel.
C13_NoTwoStepsShareFilename ==
  [][ Wrote =>
        /\ image_per_frame =>
             Files(written') \cap (saved \cup partial) = {}
        /\ ~image_per_frame =>
             \A i \in DOMAIN written' : \A f \in saved \cup partial :
               f.channel = written'[i].channel => f.file = written'[i].file ]_vars

\* C13 amended: the counter is 0 at construction and grows by 1 with each
\* step whose controller.step and frame writing have returned, whether or
\* not the rest of the step then completes, and with nothing else (a step
\* whose controller.step or frame writing raises leaves it as it was); a
\* step names its files by the counter when image_per_frame is set and
\* without suffix otherwise; with image_per_frame set no file of a step,
\* whether its frame writing returns or raises, is a file of an earlier
\* step whose frame writing returned, in this or an earlier session, and
\* with image_per_frame unset every step writes, for each channel, the
\* file every step before it wrote for that channel.
C13_CountedStepsNeverShareFilename ==
  [][ /\ pc = "constructed" => counter = 0
      /\ counter' = IF Counted THEN counter + 1 ELSE counter
      /\ Wrote =>
           /\ \A i \in DOMAIN written' :
                written'[i].image_name =
                  PathJoin(image_dir,
                           Chr(written'[i].channel)
                             \o (IF image_per_frame THEN Decimal(counter) ELSE <<>>)
                             \o Chr(".png"))
           /\ image_per_frame => Names(written') \cap saved = {}
           /\ ~image_per_frame =>
                \A i \in DOMAIN written' : \A f \in saved \cup partial :
                  f.channel = written'[i].channel => f.file = written'[i].file ]_vars

\* C13 witness: a prompt that writes one file per step has counted two
\* steps, each of three files, six in all, and the second of them was
\* left by an exception raised in its prints.
C13_Witness ==
  /\ pc = "listing_error"
  /\ image_per_frame
  /\ counter = 2
  /\ Len(written) = 3
  /\ Cardinality(saved) = 6

\* the channels in the order of frame_writes
ChannelOrder ==
  <<"color", "instance_segmentation", "class_segmentation", "depth", "depth_raw">>

\* the event ev carries the frame of channel c
HasFrame(ev, c) ==
  CASE c = "color" -> ev.frames.frame
    [] c = "instance_segmentation" -> ev.frames.instance_segmentation_frame
    [] c = "class_segmentation" -> ev.frames.class_segmentation_frame
    [] OTHER -> ev.frames.depth_frame

\* the channel c is enabled by the flags passed to interact()
Enabled(c) ==
  CASE c = "color" -> flags.color_frame
    [] c = "instance_segmentation" -> flags.instance_segmentation_frame
    [] c = "class_segmentation" -> flags.class_segmentation_frame
    [] OTHER -> flags.depth_frame

\* C14: a step whose event lacks the frame of an enabled channel completes:
\* the channel is reported, no file is written for it, the channels that
\* have a frame are all written, reports and files each in the order of
\* frame_writes, the counter advances, the affordance table is built from
\* the event, and the session is back at reading a character.
C14_MissingFrameIsReportedAndSkipped ==
  [][ \A c \in {ChannelOrder[i] : i \in DOMAIN ChannelOrder} :
        (StepDone /\ Enabled(c) /\ ~HasFrame(event', c)) =>
          /\ \E i \in DOMAIN no_frame' : no_frame'[i] = c
          /\ \A i \in DOMAIN written' : written'[i].channel # c
          /\ no_frame' =
               SelectSeq(ChannelOrder, LAMBDA d : ~HasFrame(event', d))
          /\ [i \in DOMAIN written' |-> written'[i].channel] =
               SelectSeq(ChannelOrder, LAMBDA d : HasFrame(event', d))
          /\ counter' = counter + 1
          /\ new_commands' = Enumerate(has_object_actions, event').new_commands
          /\ current_buffer' = <<>> ]_vars

\* C14 witness: a step with every channel enabled and the segmentation
\* frames missing has reported both, written color, depth and depth_raw,
\* and the session has since read the first character of the next command.
C14_Witness ==
  /\ pc = "read"
  /\ flags = EveryFlag
  /\ ~event.frames.instance_segmentation_frame
  /\ no_frame = <<"instance_segmentation", "class_segmentation">>
  /\ [i \in DOMAIN written |-> written[i].channel] = <<"color", "depth", "depth_raw">>
  /\ branch = "keep"
  /\ current_buffer = <<"ESC">>

\* controller.step has raised, or the frame writer has failed: write_image
\* has raised, or one of its saves has left no file
FailedInStep ==
  /\ pc = "step"
  /\ \/ pc' \in {"step_error", "write_error"}
     \/ Wrote /\ \E i \in DOMAIN written' : ~written'[i].stored

\* C15 as stated: when controller.step or the frame writer fails during a
\* step, interact() is left there by the failure, with the counter and the
\* active table as they were before the step; once it is left nothing
\* happens but a new call of interact(): no character is read, no command
\* dispatched, no step retried.
C15_FailureEndsTheSession ==
  [][ /\ FailedInStep =>
           /\ pc' \in {"step_error", "write_error"}
           /\ counter' = counter
           /\ interact_commands' = interact_commands
      /\ pc \in {"step_error", "write_error"} => Interact ]_vars

\* the inventory-gated PutObject branch applies to object o of the event
PutApplies(o) ==
  /\ event.inventoryObjects # <<>>
  /\ o.receptacle
  /\ (~o.openable \/ o.isopen)
  /\ event.inventoryObjects[1].objectId # o.objectId

\* the dynamic table holds PickupObject on object o
HasPickup(o) ==
  \E k \in DOMAIN new_commands :
    new_commands[k] = [action |-> "PickupObject", objectId |-> o.objectId]

\* C16 as stated: for a visible object to which the PutObject branch does
\* not apply, PickupObject on it is in the table if and only if it is
\* pickupable (unless the table is full), whether or not an item is held.
C16_PickupIffPickupable ==
  (Stepped /\ has_object_actions) =>
    \A i \in DOMAIN event.objects :
      LET o == event.objects[i]
      IN  (o.visible /\ ~PutApplies(o)) =>
            /\ HasPickup(o) => o.pickupable
            /\ Cardinality(DOMAIN new_commands) < 14 =>
                 (HasPickup(o) <=> o.pickupable)

\* C16 amended: for such an object PickupObject on it is in the table if
\* and only if it is pickupable and the inventory is empty (unless the
\* table is full); while an item is held the table holds no PickupObject.
C16_PickupOnlyWithEmptyInventory ==
  (Stepped /\ has_object_actions) =>
    /\ \A i \in DOMAIN event.objects :
         LET o == event.objects[i]
         IN  (o.visible /\ ~PutApplies(o)) =>
               /\ HasPickup(o) => (o.pickupable /\ event.inventoryObjects = <<>>)
               /\ Cardinality(DOMAIN new_commands) < 14 =>
                    (HasPickup(o) <=> (o.pickupable /\ event.inventoryObjects = <<>>))
    /\ event.inventoryObjects # <<>> =>
         \A k \in DOMAIN new_commands : new_commands[k].action # "PickupObject"

\* C16 witness: an item is held, a pickupable object that is no receptacle
\* is in view, the table has room, and it holds no PickupObject on it.
C16_Witness ==
  /\ Stepped
  /\ has_object_actions
  /\ event.inventoryObjects # <<>>
  /\ Cardinality(DOMAIN new_commands) < 14
  /\ \E i \in DOMAIN event.objects :
       /\ event.objects[i].visible
       /\ event.objects[i].pickupable
       /\ ~event.objects[i].receptacle
       /\ event.inventoryObjects[1].objectId # event.objects[i].objectId
       /\ ~HasPickup(event.objects[i])

RECURSIVE Generated(_, _)
\* the affordances of the visible objects among os, in generation order:
\* objects in metadata order, within an object open/close, toggle, put
\* bundle, pickup
Generated(os, inv) ==
  IF os = <<>> THEN <<>>
  ELSE (IF Head(os).visible
        THEN OpenCloseCommands(Head(os)) \o ToggleCommands(Head(os))
               \o InventoryCommands(Head(os), inv)
        ELSE <<>>)
       \o Generated(Tail(os), inv)

\* C17: after a step the dynamic keys are exactly "1".."n" for
\* n = min(14, number of affordances generated over all visible objects),
\* and slot k holds the k-th generated affordance.
C17_SlotsAreConsecutive ==
  (Stepped /\ has_object_actions) =>
    LET all == Generated(event.objects, event.inventoryObjects)
        n == IF Len(all) < 14 THEN Len(all) ELSE 14
    IN  /\ DOMAIN new_commands = {SlotKey[k] : k \in 1..n}
        /\ \A k \in 1..n : new_commands[SlotKey[k]] = all[k]

\* C17 witness: two visible objects, the first with two affordances, the
\* second with one that sits in slot 3.
C17_Witness ==
  /\ Stepped
  /\ has_object_actions
  /\ Len(event.objects) = 2
  /\ event.objects[1].visible /\ event.objects[2].visible
  /\ DOMAIN new_commands = {<<"1">>, <<"2">>, <<"3">>}
  /\ "objectId" \in DOMAIN new_commands[<<"2">>]
  /\ new_commands[<<"2">>].objectId = 1
  /\ "objectId" \in DOMAIN new_commands[<<"3">>]
  /\ new_commands[<<"3">>].objectId = 2

\* C18 as stated: the listing printed after a step names the slots in
\* ascending slot-number order, line i naming slot i and its command, for
\* every number of entries from 0 to 14.
C18_ListingInSlotOrder ==
  Stepped =>
    /\ Len(listing) = Cardinality(DOMAIN new_commands)
    /\ \A i \in DOMAIN listing :
         /\ listing[i].slot = SlotKey[i]
         /\ listing[i].command = new_commands[SlotKey[i]]

\* the objects of the event that are in view, in metadata order
VisibleOnly == SelectSeq(event.objects, LAMBDA o : o.visible)

\* the command c is directed at the object with identifier id (as the
\* object acted on, or as the receptacle of PutObject)
AimedAt(c, id) ==
  \/ /\ "receptacleObjectId" \in DOMAIN c
     /\ c.receptacleObjectId = id
  \/ /\ "objectId" \in DOMAIN c
     /\ "receptacleObjectId" \notin DOMAIN c
     /\ c.objectId = id

\* C19: after a step no dynamic entry is directed at an object out of
\* view and none of them is listed, whatever its flags; the dynamic table
\* is the one the objects in view alone generate; and without object
\* actions the dynamic table is empty, nothing is listed and the active
\* table is the static table.
C19_OnlyVisibleObjectsContribute ==
  Stepped =>
    /\ \A i \in DOMAIN event.objects :
         ~event.objects[i].visible =>
           /\ \A j \in DOMAIN visible_objects :
                visible_objects[j] # event.objects[i].objectId
           /\ \A k \in DOMAIN new_commands :
                ~AimedAt(new_commands[k], event.objects[i].objectId)
    /\ has_object_actions =>
         /\ visible_objects = [j \in DOMAIN VisibleOnly |-> VisibleOnly[j].objectId]
         /\ new_commands =
              Enumerate(TRUE, Event(VisibleOnly, event.inventoryObjects,
                                    event.frames)).new_commands
    /\ ~has_object_actions =>
         /\ new_commands = EmptyDict
         /\ visible_objects = <<>>
         /\ interact_commands = default_interact_commands

\* C19 witness: the first object is out of view with every flag set, the
\* second is in view; only the second is listed, and slot 1 is directed at
\* it.
C19_Witness ==
  /\ Stepped
  /\ has_object_actions
  /\ Len(event.objects) = 2
  /\ event.objects[1] = Object(Flags(FALSE, TRUE, TRUE, TRUE, TRUE, TRUE), 1)
  /\ visible_objects = <<2>>
  /\ <<"1">> \in DOMAIN new_commands
  /\ AimedAt(new_commands[<<"1">>], 2)

\* the buffer buf is one the interpreter may wait on under the table
\* commands: empty, or a strict prefix of a key that is neither a key nor
\* a quit sequence
Waitable(commands, buf) ==
  \/ buf = <<>>
  \/ /\ \E k \in DOMAIN commands : StrictPrefix(buf, k)
     /\ buf \notin DOMAIN commands
     /\ buf \notin QuitSequences

\* C20 as stated: wherever the session waits for a character the buffer
\* is waitable under the active table, and the active table is replaced
\* only at the start of a session or by a step, between a yield and the
\* following read, and then only while the buffer of the interpreter is
\* empty.
C20_TableReplacedOnEmptyBuffer ==
  [][ /\ pc \in {"read", "reading"} =>
           Waitable(interact_commands, current_buffer)
      /\ pc' \in {"read", "reading"} =>
           Waitable(interact_commands', current_buffer')
      /\ interact_commands' # interact_commands =>
           /\ pc \in Outside \/ pc = "step"
           /\ pc = "step" => current_buffer = <<>> ]_vars

\* C20 amended: wherever the session waits for a character the buffer is
\* waitable under the active table; the active table is replaced only by
\* the start of a session and by the for-body of a step, that is between a
\* yield and the read that follows it; all through the step the buffer
\* holds the complete key just yielded, not the empty string, and the read
\* that follows a step or the start of a session starts from an empty
\* buffer: no partial buffer is carried from one table to the next.
C20_NoPartialBufferAcrossRebuild ==
  [][ /\ pc \in {"read", "reading"} =>
           Waitable(interact_commands, current_buffer)
      /\ pc' \in {"read", "reading"} =>
           Waitable(interact_commands', current_buffer')
      /\ interact_commands' # interact_commands => (pc \in Outside \/ pc = "step")
      /\ pc = "step" =>
           /\ current_buffer # <<>>
           /\ current_buffer \in DOMAIN interact_commands
           /\ a = interact_commands[current_buffer]
      /\ ((pc \in Outside \/ pc = "step") /\ pc' = "read") =>
           current_buffer' = <<>> ]_vars

\* C20 witness: after a step that replaced the table by one with dynamic
\* entries the session waits with the strict prefix ESC [ of the arrow
\* keys buffered.
C20_Witness ==
  /\ pc = "read"
  /\ new_commands # EmptyDict
  /\ interact_commands # default_interact_commands
  /\ branch = "keep"
  /\ current_buffer = <<"ESC", "[">>

=============================================================================
